---- MODULE Spec2Model ----
(***************************************************************************)
(* Model of python-log-async: the two-phase event buffer (DatabaseCache    *)
(* and MemoryCache), the LogProcessingWorker main loop, the transport and  *)
(* the handler's close().                                                  *)
(*                                                                         *)
(* The specifications are defined over the same buffer operators:         *)
(*   SpecBuf      the buffer API driven directly, as the unit tests do     *)
(*   SpecTwin     a DatabaseCache and a MemoryCache driven in step         *)
(*   Spec         handler + worker thread + buffer + transport             *)
(*   SpecClose    Spec under fair scheduling, clock held still             *)
(*   SpecThreads  application threads racing on the worker reference       *)
(***************************************************************************)
EXTENDS Integers, Sequences, FiniteSets, TLC

(* ------------------------------ bounds -------------------------------- *)
\* number of rows ever inserted into one buffer file / cache
MaxId == 2
\* cap on add_event calls counted by one stats object
MaxEventsTotal == 3
\* cap on the buffered_events gauge (requeue can raise it without limit)
MaxGauge == 3
\* cap on injected lock conflicts counted by one stats object
MaxLockErrors == 1
\* wall clock runs 0..MaxTime
MaxTime == 2
\* events a producer emits in the pipeline specification
MaxEmit == 2
\* events the collector receives in the pipeline specification
MaxRecv == 3
\* injected faults (lock conflicts, socket errors) in the pipeline
MaxFaults == 2
\* LogProcessingWorker objects constructed by concurrent application threads
MaxWorkers == 3
\* handler calls (emit, close) one application thread makes
MaxCalls == 2

\* _safe_log calls of the worker in a run
MaxLogCalls == 4

(* ------------------------ configuration values ------------------------ *)
\* Python None for event_ttl / max_size
None == -1
\* constants.QUEUED_EVENTS_FLUSH_INTERVAL (10.0 s in the source; the
\* application may change it at startup, the model uses clock ticks)
QUEUED_EVENTS_FLUSH_INTERVAL == 1
\* constants.QUEUED_EVENTS_FLUSH_COUNT (50 in the source, scaled down)
QUEUED_EVENTS_FLUSH_COUNT == 1
\* payloads the buffer tests add
Payloads == {"a", "b"}
\* event_ttl values a buffer is constructed with
TTLs == {None, 0}
\* clock ticks per second: datetime('now') of sqlite has whole seconds, the
\* wall clock of the process is finer
TicksPerSecond == 2
\* max_size and overflow_fn a buffer is constructed with
Limits == {<<None, FALSE>>, <<1, FALSE>>, <<2, TRUE>>}

(* ------------------------------ helpers ------------------------------- *)
Min(a, b) == IF a <= b THEN a ELSE b

Ids(events) == {events[i].id : i \in DOMAIN events}

\* number of entries of a sequence satisfying a predicate
Count(s, P(_)) == Len(SelectSeq(s, P))

\* payloads of a sequence of events, in order
Texts(events) == [i \in DOMAIN events |-> events[i].event_text]

\* how often payload p occurs in a sequence of payloads
Occ(s, p) == Cardinality({i \in DOMAIN s : s[i] = p})

\* same multiset of payloads
SameBag(s, t) == /\ Len(s) = Len(t)
                 /\ \A i \in DOMAIN s : Occ(s, s[i]) = Occ(t, s[i])

(* ------------------------------- stats -------------------------------- *)
\* LogStats / DatabaseStats of a freshly constructed buffer
NewStats == [events_total |-> 0, discarded_total |-> 0, buffered_events |-> 0,
             sent_total |-> 0, lock_errors_total |-> 0]

\* LogStats.unbuffer: the gauge never goes below zero
unbuffer(g, n) == g - Min(g, n)

(* --------------------------- buffer objects --------------------------- *)
\* A buffer is a record
\*   kind        "db" (DatabaseCache) or "mem" (MemoryCache)
\*   rows        the event table / the cache dict, in insertion order
\*   next_id     next AUTOINCREMENT id / next fresh uuid
\*   event_ttl, max_size, overflow_fn   constructor arguments
\*   stats       the buffer's stats object
\*   overflow_calls   how often overflow_fn was invoked
NewBuffer(kind, ttl, max, ofn) ==
    [kind |-> kind, rows |-> <<>>, next_id |-> 1,
     event_ttl |-> ttl, max_size |-> max, overflow_fn |-> ofn,
     stats |-> NewStats, overflow_calls |-> 0]

\* entry_date is the timestamp the buffer stores; added is the wall clock
\* at the insert, which the program does not keep
Row(id, event, entry_date, t) ==
    [id |-> id, event_text |-> event, pending_delete |-> FALSE,
     entry_date |-> entry_date, added |-> t]

\* what get_queued_events hands out for a row
Ev(r) == [id |-> r.id, event_text |-> r.event_text]

Buffered(b) == SelectSeq(b.rows, LAMBDA r : ~r.pending_delete)

InFlight(b) == SelectSeq(b.rows, LAMBDA r : r.pending_delete)

\* a result of a buffer call: new buffer, returned events, raised exception
Res(b, ret, exc) == [buf |-> b, ret |-> ret, exc |-> exc]

\* mutant: the lock conflict is raised but not counted
Db_locked_NoCount(b) == Res(b, <<>>, "DatabaseLockedError")

\* DatabaseCache._handle_sqlite_error on 'database is locked': the
\* transaction is rolled back, the conflict is counted, DatabaseLockedError
Db_locked(b) ==
    Res([b EXCEPT !.stats.lock_errors_total = @ + 1], <<>>, "DatabaseLockedError")

\* _handle_sqlite_error on any other sqlite3.OperationalError: it returns
\* without counting and _connect re-raises the error as it is; the
\* transaction is rolled back
Db_failed(b) == Res(b, <<>>, "OperationalError")

\* _connect / _initialize_schema: the except clause for an engine error
Db_raise(b, fault) == IF fault = "locked" THEN Db_locked(b) ELSE Db_failed(b)

\* UPDATE event SET pending_delete = flag WHERE event_id IN ids
SetPending(rows, ids, flag) ==
    [i \in DOMAIN rows |->
        IF rows[i].id \in ids THEN [rows[i] EXCEPT !.pending_delete = flag]
                              ELSE rows[i]]

\* the overflow branch shared by both add_event implementations
Discard(b) ==
    [b EXCEPT !.stats.discarded_total = @ + 1,
              !.overflow_calls = IF b.overflow_fn THEN @ + 1 ELSE @]

(* ---------------------------- DatabaseCache --------------------------- *)
\* datetime('now') at wall clock t: 'YYYY-MM-DD HH:MM:SS', whole seconds
Db_datetime(t) == t \div TicksPerSecond

\* mutant: the event is counted only once it is stored
Db_add_event_CountStored(b, event, t, fault) ==
    IF b.max_size # None
    THEN Res(b, <<>>, "AttributeError")
    ELSE IF fault # "none"
    THEN Db_raise(b, fault)
    ELSE Res([b EXCEPT !.rows = Append(@, Row(b.next_id, event, Db_datetime(t), t)),
                       !.next_id = @ + 1,
                       !.stats.events_total = @ + 1,
                       !.stats.buffered_events = @ + 1], <<>>, "none")

\* add_event: stats.event(1) comes first; with max_size set the call of the
\* undefined stats.totalBuffered() raises AttributeError
Db_add_event(b, event, t, fault) ==
    LET b1 == [b EXCEPT !.stats.events_total = @ + 1] IN
    IF b.max_size # None
    THEN Res(b1, <<>>, "AttributeError")
    ELSE IF fault # "none"
    THEN Db_raise(b1, fault)
    ELSE Res([b1 EXCEPT !.rows = Append(@, Row(b.next_id, event, Db_datetime(t), t)),
                        !.next_id = @ + 1,
                        !.stats.buffered_events = @ + 1], <<>>, "none")

\* mutant: the rows of the previous batch are deleted before the SELECT
Db_get_queued_events_Purge(b, fault) ==
    IF fault # "none"
    THEN Db_raise(b, fault)
    ELSE LET events == Buffered(b) IN
         Res([b EXCEPT !.rows = SetPending(Buffered(b), Ids(events), TRUE),
                       !.stats.buffered_events = unbuffer(@, Len(events))],
             [i \in DOMAIN events |-> Ev(events[i])], "none")

Db_get_queued_events(b, fault) ==
    IF fault # "none"
    THEN Db_raise(b, fault)
    ELSE LET events == Buffered(b) IN
         Res([b EXCEPT !.rows = SetPending(@, Ids(events), TRUE),
                       !.stats.buffered_events = unbuffer(@, Len(events))],
             [i \in DOMAIN events |-> Ev(events[i])], "none")

\* rowcount of the UPDATE counts every row whose id is listed, whatever its
\* pending_delete was
Db_requeue_queued_events(b, events, fault) ==
    IF fault # "none"
    THEN Db_raise(b, fault)
    ELSE LET n == Count(b.rows, LAMBDA r : r.id \in Ids(events)) IN
         Res([b EXCEPT !.rows = SetPending(@, Ids(events), FALSE),
                       !.stats.buffered_events = @ + n], <<>>, "none")

\* mutant: DELETE without the WHERE pending_delete = 1
Db_delete_queued_events_All(b, fault) ==
    IF fault # "none"
    THEN Db_raise(b, fault)
    ELSE Res([b EXCEPT !.rows = <<>>], <<>>, "none")

Db_delete_queued_events(b, fault) ==
    IF fault # "none"
    THEN Db_raise(b, fault)
    ELSE Res([b EXCEPT !.rows = Buffered(b)], <<>>, "none")

\* mutant: DELETE ... AND pending_delete = 0, in-flight rows are kept
Db_expire_events_BufferedOnly(b, t, fault) ==
    IF b.event_ttl = None
    THEN Res(b, <<>>, "none")
    ELSE IF fault # "none"
    THEN Db_raise(b, fault)
    ELSE LET keep == SelectSeq(b.rows,
                       LAMBDA r : \/ ~(r.entry_date < Db_datetime(t) - b.event_ttl)
                                  \/ r.pending_delete)
             numDeleted == Len(b.rows) - Len(keep) IN
         Res([b EXCEPT !.rows = keep,
                       !.stats.discarded_total = @ + numDeleted], <<>>, "none")

Db_expire_events(b, t, fault) ==
    IF b.event_ttl = None
    THEN Res(b, <<>>, "none")
    ELSE IF fault # "none"
    THEN Db_raise(b, fault)
    ELSE LET keep == SelectSeq(b.rows,
                       LAMBDA r : ~(r.entry_date < Db_datetime(t) - b.event_ttl))
             numDeleted == Len(b.rows) - Len(keep) IN
         Res([b EXCEPT !.rows = keep,
                       !.stats.discarded_total = @ + numDeleted], <<>>, "none")

\* a new DatabaseCache object on the same file: the rows and the
\* AUTOINCREMENT sequence are what the file holds, the stats start at zero
Db_reopen(b) == [b EXCEPT !.stats = NewStats, !.overflow_calls = 0]

(* ----------------------------- MemoryCache ---------------------------- *)
\* mutant: the overflow test is len(cache) > max_size
Mem_add_event_Gt(b, event, t) ==
    LET b1 == [b EXCEPT !.stats.events_total = @ + 1] IN
    IF b.max_size # None /\ Len(b.rows) > b.max_size
    THEN Res(Discard(b1), <<>>, "none")
    ELSE Res([b1 EXCEPT !.rows = Append(@, Row(b.next_id, event, t, t)),
                        !.next_id = @ + 1,
                        !.stats.buffered_events = @ + 1], <<>>, "none")

Mem_add_event(b, event, t) ==
    LET b1 == [b EXCEPT !.stats.events_total = @ + 1] IN
    IF b.max_size # None /\ Len(b.rows) >= b.max_size
    THEN Res(Discard(b1), <<>>, "none")
    ELSE Res([b1 EXCEPT !.rows = Append(@, Row(b.next_id, event, t, t)),
                        !.next_id = @ + 1,
                        !.stats.buffered_events = @ + 1], <<>>, "none")

\* mutant: the returned events are not marked pending_delete
Mem_get_queued_events_NoMark(b) ==
    LET events == Buffered(b) IN
    Res([b EXCEPT !.stats.buffered_events = unbuffer(@, Len(events))],
        [i \in DOMAIN events |-> Ev(events[i])], "none")

Mem_get_queued_events(b) ==
    LET events == Buffered(b) IN
    Res([b EXCEPT !.rows = SetPending(@, Ids(events), TRUE),
                  !.stats.buffered_events = unbuffer(@, Len(events))],
        [i \in DOMAIN events |-> Ev(events[i])], "none")

\* n counts every listed event found in the cache, in flight or not
Mem_requeue_queued_events(b, events) ==
    LET n == Count(events, LAMBDA e : e.id \in Ids(b.rows)) IN
    Res([b EXCEPT !.rows = SetPending(@, Ids(events), FALSE),
                  !.stats.buffered_events = @ + n], <<>>, "none")

\* _delete_events: pop each id, then stats.discard(n)
Mem_delete_events(b, ids) ==
    LET keep == SelectSeq(b.rows, LAMBDA r : r.id \notin ids) IN
    [b EXCEPT !.rows = keep,
              !.stats.discarded_total = @ + (Len(b.rows) - Len(keep))]

Mem_delete_queued_events(b) ==
    Res(Mem_delete_events(b, Ids(InFlight(b))), <<>>, "none")

Mem_expire_events(b, t) ==
    IF b.event_ttl = None
    THEN Res(b, <<>>, "none")
    ELSE LET old == SelectSeq(b.rows,
                      LAMBDA r : r.entry_date < t - b.event_ttl * TicksPerSecond) IN
         Res(Mem_delete_events(b, Ids(old)), <<>>, "none")

(* ------------------- the Cache interface (dispatch) ------------------- *)
add_event(b, event, t, fault) ==
    IF b.kind = "db" THEN Db_add_event(b, event, t, fault)
                     ELSE Mem_add_event(b, event, t)

get_queued_events(b, fault) ==
    IF b.kind = "db" THEN Db_get_queued_events(b, fault)
                     ELSE Mem_get_queued_events(b)

requeue_queued_events(b, events, fault) ==
    IF b.kind = "db" THEN Db_requeue_queued_events(b, events, fault)
                     ELSE Mem_requeue_queued_events(b, events)

delete_queued_events(b, fault) ==
    IF b.kind = "db" THEN Db_delete_queued_events(b, fault)
                     ELSE Mem_delete_queued_events(b)

expire_events(b, t, fault) ==
    IF b.kind = "db" THEN Db_expire_events(b, t, fault)
                     ELSE Mem_expire_events(b, t)

\* the faults the environment can inject into a call on buffer b: only the
\* durable buffer talks to a lockable store
Faults(b) == IF b.kind = "db" THEN {"none", "locked"} ELSE {"none"}

\* every way a call on buffer b can fail in the engine: a lock conflict or
\* another sqlite3.OperationalError
EngineFaults(b) == IF b.kind = "db" THEN {"none", "locked", "error"} ELSE {"none"}

(* ------------------------------ variables ----------------------------- *)
VARIABLES
    buf,        \* the buffer object (see NewBuffer)
    now,        \* wall clock
    \* --- SpecBuf: what the caller of the buffer API observes
    hist,       \* the latest calls, as far as they begin a scenario
    ret,        \* events returned by the last get_queued_events
    retPrev,    \* in a requeue round trip: the list that was requeued
    snap,       \* gauge and counter around the add_event of a scenario
    adds,       \* the run of add_event calls since the last other call
    objlog,     \* the buffer object: add_event calls made on it, and whether
                \* it was constructed on a file written by an earlier object
    twin,       \* SpecTwin: a MemoryCache driven in step with the
                \* DatabaseCache buf, and what its last get returned
    \* --- Spec: handler, worker thread, transport
    hpc,        \* the application thread: "idle", "joining" (in close), "closed"
    emitted,    \* number of records the application has logged
    runs,       \* number of worker threads started so far
    wpc,        \* the worker thread's position ("none": no worker object)
    queue,      \* LogProcessingWorker._queue
    shutdown_event,     \* LogProcessingWorker._shutdown_event
    flush_event,        \* LogProcessingWorker._flush_event
    held_event, \* LogProcessingWorker._event
    force,      \* the force argument of the pending _flush_queued_events
    final,      \* the pending flush is the one before _fetch_events returns
    last_event_flush_date,      \* LogProcessingWorker._last_event_flush_date
    non_flushed_event_count,    \* LogProcessingWorker._non_flushed_event_count
    wstats,     \* LogProcessingWorker._stats
    tstats,     \* the transport's stats
    received,   \* payloads the collector has received, in order
    faults,     \* lock conflicts and socket errors injected so far
    acked,      \* ids of the events in batches Transport.send returned for
    acked_total,        \* number of events in those batches
    resent,     \* an event of such a batch was passed to Transport.send again
    send_failed,        \* some Transport.send raised
    obs,        \* what the flush that just ended did
    exited,     \* how _fetch_events ended ("": it has not)
    transport_closed,   \* the handler has called Transport.close since the
                        \* worker was started
    \* --- SpecThreads: several application threads and the class attribute
    worker_thread,      \* AsynchronousLogHandler._worker_thread (0: None)
    created,    \* number of LogProcessingWorker objects constructed
    started,    \* worker objects whose start() was called
    alive,      \* worker objects whose thread is running
    signalled,  \* worker objects whose _shutdown_event is set
    enqueued,   \* per worker object, the records put on its queue
    tpc,        \* per application thread, its position in emit / close
    calls,      \* per application thread, the calls it has begun
    result,     \* per application thread, how its last emit ended
    enable,     \* per application thread, the enable flag its handler
                \* instance was constructed with
    owner,      \* per worker object, the handler instance whose host, port,
                \* transport and buffer its constructor was given
    delivered,  \* pairs <<h, g>>: a record emitted through handler h was put
                \* on the queue of a worker constructed with g's buffer
    counted,    \* per worker object, _events._value of its WorkerStats
    local,      \* per application thread, the worker and the value that
                \* Value.inc has loaded and not yet stored (None: nothing)
    \* --- SpecLog: the worker's rate-limited diagnostics
    rate_limit_item,    \* amount of the parsed ERROR_LOG_RATE_LIMIT (None: unset)
    rate_limit_storage, \* per key, the hit count and the end of its window
    window_log, \* per key, the window in which it was last checked and the
                \* diagnostics handed to the logger in that window
    last_log,   \* the latest _safe_log call: key, remaining, outcome
    log_calls   \* number of _safe_log calls made

bufvars == <<buf, now>>

obsvars == <<hist, ret, retPrev, snap, adds, objlog, twin>>

appvars == <<hpc, emitted, runs>>

workervars == <<wpc, queue, shutdown_event, flush_event, held_event, force, final,
                last_event_flush_date, non_flushed_event_count, wstats>>

sendvars == <<tstats, received, faults, acked, acked_total, resent, send_failed, obs>>

closevars == <<exited, transport_closed>>

thrvars == <<worker_thread, created, started, alive, signalled, enqueued, tpc,
             calls, result, enable, owner, delivered, counted, local>>

logvars == <<rate_limit_item, rate_limit_storage, window_log, last_log, log_calls>>

pipevars == <<appvars, workervars, sendvars, closevars, thrvars, logvars>>

(* ----------------------- SpecBuf: the buffer API ---------------------- *)
\* the call sequences of the unit tests (database_test.py,
\* memory_cache_test.py) that hist follows
Scenarios ==
    { <<"get", "get">>,                \* test_get_queued_events_set_delete_flag
      <<"get", "requeue", "get">>,     \* test_requeue_queued_events
      <<"add", "delete", "get">>,      \* test_dont_delete_unqueued_events
      <<"add", "get", "delete">>,      \* test_event_counter
      <<"expire", "get">>,             \* test_expire_events
      <<"reopen", "get">> }            \* a restart on the same file

IsPrefix(h, s) == Len(h) <= Len(s) /\ \A i \in DOMAIN h : h[i] = s[i]

Suffix(h, n) == SubSeq(h, Len(h) - n + 1, Len(h))

\* the longest suffix of the calls made so far that begins a scenario
Track(h, tag) ==
    LET full == Append(h, tag)
        fits == {n \in 0..Len(full) : \E s \in Scenarios : IsPrefix(Suffix(full, n), s)}
    IN Suffix(full, CHOOSE n \in fits : \A m \in fits : m <= n)

\* a call that raised out of the engine
Failed(r) == r.exc \in {"DatabaseLockedError", "OperationalError"}

\* tag of a call in hist; a call that failed in the engine ends every scenario
Tag(op, r) == IF Failed(r) THEN "failed" ELSE op

\* g0, e0: buffered_events and events_total before the add_event; g1: the
\* gauge after it; id, text: the row it stored (id 0: it stored none)
NoSnap == [g0 |-> 0, e0 |-> 0, g1 |-> 0, id |-> 0, text |-> ""]

\* the overflow condition of add_event as documented: the mapping's
\* cardinality for the volatile buffer, the buffered count for the durable
LimitReached(b) ==
    /\ b.max_size # None
    /\ (IF b.kind = "mem" THEN Len(b.rows) ELSE b.stats.buffered_events) >= b.max_size

\* seq: payloads of the run; clean: the buffer held no buffered event when the
\* run began and no call of the run hit a lock conflict; limit: some call of
\* the run found max_size reached; got: a get_queued_events ended the run;
\* raised: some call of the run raised another exception
NoAdds(b) == [seq |-> <<>>, clean |-> Len(Buffered(b)) = 0, limit |-> FALSE,
              got |-> FALSE, raised |-> FALSE]

\* a buffer object on which nothing was called yet; expired_at is the wall
\* clock of the expire_events call that begins the scenario under observation
NewObject == [add_calls |-> 0, reopened |-> FALSE, expired_at |-> None,
              exc |-> "none"]

\* expired_at is kept while the scenario under observation starts with expire
KeepExpiredAt(h) == IF h # <<>> /\ h[1] = "expire" THEN objlog.expired_at ELSE None

\* no second buffer is driven
NoTwin == [buf |-> NewBuffer("mem", None, None, FALSE), ret |-> <<>>]

\* guard of an injected engine fault: none once MaxLockErrors lock conflicts
\* were counted
MayFault(b, fault) ==
    fault # "none" => b.stats.lock_errors_total < MaxLockErrors

\* snap is kept while the scenario under observation starts with its add
KeepSnap(h) == IF h # <<>> /\ h[1] = "add" THEN snap ELSE NoSnap

\* LogStats counters of a new LogProcessingWorker / a new transport
NewWorkerStats == [events_total |-> 0, sent_total |-> 0]

NewTransportStats == [errors_total |-> 0, sent_msgs |-> 0]

\* no flush has just ended; get: how the get_queued_events of the flush
\* that has just ended came back
NoObs == [send |-> "none", batch |-> {}, deleted |-> FALSE, requeued |-> FALSE,
          reset |-> FALSE, get |-> "none"]

\* application threads
Threads == {1, 2}

\* the default of the constructor: enable=True
AllEnabled == [t \in Threads |-> TRUE]

\* ---- the worker's rate limiter (limits: FixedWindowRateLimiter over a
\* MemoryStorage), as _setup_logger builds it and _rate_limit_check uses it
Max(a, b) == IF a > b THEN a ELSE b

\* ERROR_LOG_RATE_LIMIT: unset, or an amount per window
RateLimits == {None, 1, 2}

\* length of the window of the rate limit, in clock ticks
RateWindow == 2

\* exceptions the worker logs: module, class, errno (None: no integer errno)
Excs == { [module |-> "socket", class |-> "error", errno |-> 111],
          [module |-> "socket", class |-> "error", errno |-> 32],
          [module |-> "log_async.database", class |-> "DatabaseLockedError",
           errno |-> None] }

\* a _safe_log call without the exc keyword
NoExc == [module |-> "", class |-> "", errno |-> None]

\* _factor_rate_limit_key: module and class name, and the errno if there is one
factor_rate_limit_key(exc) ==
    IF exc.errno # None THEN <<exc.module, exc.class, exc.errno>>
                        ELSE <<exc.module, exc.class>>

Keys == {factor_rate_limit_key(exc) : exc \in Excs}

\* MemoryStorage(): no key has a counter
NewStorage == [k \in Keys |-> [count |-> 0, expiry |-> 0]]

\* MemoryStorage.get: the counter of the key, 0 once its window has ended
storage_get(st, key, t) == IF st[key].expiry > t THEN st[key].count ELSE 0

\* FixedWindowRateLimiter.get_window_stats: the remaining amount in the window
get_window_stats(st, amount, key, t) == Max(0, amount - storage_get(st, key, t))

\* FixedWindowRateLimiter.hit: the counter is incremented; the first hit
\* after the window has ended starts a new window
hit(st, key, t) ==
    IF st[key].expiry > t
    THEN [st EXCEPT ![key].count = @ + 1]
    ELSE [st EXCEPT ![key] = [count |-> 1, expiry |-> t + RateWindow]]

\* mutant: the remaining amount is read but the check is not counted
rate_limit_check_NoHit(st, amount, exc, t) ==
    IF amount # None /\ exc # NoExc
    THEN [remaining |-> get_window_stats(st, amount, factor_rate_limit_key(exc), t),
          storage |-> st]
    ELSE [remaining |-> 2, storage |-> st]

\* _rate_limit_check: with a limiter and an exception, the remaining amount
\* read before the hit; otherwise 2 (allowed)
rate_limit_check(st, amount, exc, t) ==
    IF amount # None /\ exc # NoExc
    THEN [remaining |-> get_window_stats(st, amount, factor_rate_limit_key(exc), t),
          storage |-> hit(st, factor_rate_limit_key(exc), t)]
    ELSE [remaining |-> 2, storage |-> st]

\* no diagnostic was handed to the logger for any key
NewWindowLog == [k \in Keys |-> [window |-> 0, sent |-> 0]]

\* no _safe_log call was made
NoLogCall == [exc |-> NoExc, down |-> FALSE, remaining |-> None, outcome |-> "none"]

\* ERROR_LOG_RATE_LIMIT = None (the default), nothing logged
NoLog ==
    /\ rate_limit_item = None
    /\ rate_limit_storage = NewStorage
    /\ window_log = NewWindowLog
    /\ last_log = NoLogCall
    /\ log_calls = 0

\* no application thread is inside a handler call, no worker object exists
NoThreads ==
    /\ worker_thread = 0
    /\ created = 0
    /\ started = {}
    /\ alive = {}
    /\ signalled = {}
    /\ enqueued = <<>>
    /\ tpc = [t \in Threads |-> "idle"]
    /\ calls = [t \in Threads |-> 0]
    /\ result = [t \in Threads |-> ""]
    /\ owner = <<>>
    /\ delivered = {}
    /\ counted = <<>>
    /\ local = [t \in Threads |-> None]

\* AsynchronousLogHandler._worker_thread = None, nothing logged or sent yet
NoWorker ==
    /\ hpc = "idle"
    /\ emitted = 0
    /\ runs = 0
    /\ wpc = "none"
    /\ queue = <<>>
    /\ shutdown_event = FALSE
    /\ flush_event = FALSE
    /\ held_event = None
    /\ force = FALSE
    /\ final = FALSE
    /\ last_event_flush_date = None
    /\ non_flushed_event_count = None
    /\ wstats = NewWorkerStats
    /\ tstats = NewTransportStats
    /\ received = <<>>
    /\ faults = 0
    /\ acked = {}
    /\ acked_total = 0
    /\ resent = FALSE
    /\ send_failed = FALSE
    /\ obs = NoObs
    /\ exited = ""
    /\ transport_closed = FALSE
    /\ NoThreads

InitBuf ==
    /\ NoWorker
    /\ NoLog
    /\ enable = AllEnabled
    /\ buf \in {NewBuffer(k, ttl, lim[1], lim[2]) :
                  k \in {"db", "mem"}, ttl \in TTLs, lim \in Limits}
    /\ now = 0
    /\ hist = <<>>
    /\ ret = <<>>
    /\ retPrev = <<>>
    /\ snap = NoSnap
    /\ adds = NoAdds(buf)
    /\ objlog = NewObject
    /\ twin = NoTwin

T_add_event ==
    \E event \in Payloads, fault \in EngineFaults(buf) :
        LET r == add_event(buf, event, now, fault) IN
        /\ buf.stats.events_total < MaxEventsTotal
        /\ r.buf.next_id <= MaxId + 1
        /\ MayFault(buf, fault)
        /\ buf' = r.buf
        /\ hist' = Track(hist, Tag("add", r))
        /\ snap' = IF Failed(r) THEN NoSnap
                   ELSE [g0 |-> buf.stats.buffered_events,
                         e0 |-> buf.stats.events_total,
                         g1 |-> r.buf.stats.buffered_events,
                         id |-> IF Len(r.buf.rows) > Len(buf.rows)
                                THEN buf.next_id ELSE 0,
                         text |-> IF Len(r.buf.rows) > Len(buf.rows)
                                  THEN event ELSE ""]
        /\ adds' = LET run == IF adds.got THEN NoAdds(buf) ELSE adds IN
                   IF Failed(r)
                   THEN [run EXCEPT !.clean = FALSE]
                   ELSE [run EXCEPT !.seq = Append(@, event),
                                    !.limit = @ \/ LimitReached(buf),
                                    !.raised = @ \/ r.exc # "none"]
        /\ retPrev' = <<>>
        /\ objlog' = [objlog EXCEPT !.add_calls = @ + 1, !.expired_at = None,
                                   !.exc = r.exc]
        /\ UNCHANGED <<now, ret, twin, pipevars>>

T_get_queued_events ==
    \E fault \in EngineFaults(buf) :
        LET r == get_queued_events(buf, fault) IN
        /\ MayFault(buf, fault)
        /\ buf' = r.buf
        /\ hist' = Track(hist, Tag("get", r))
        /\ ret' = IF r.exc = "none" THEN r.ret ELSE ret
        /\ retPrev' = IF hist' = <<"get", "requeue", "get">> THEN ret ELSE <<>>
        /\ snap' = KeepSnap(hist')
        /\ adds' = IF r.exc = "none" /\ ~adds.got THEN [adds EXCEPT !.got = TRUE]
                   ELSE NoAdds(r.buf)
        /\ objlog' = [objlog EXCEPT !.expired_at = KeepExpiredAt(hist'),
                                   !.exc = r.exc]
        /\ UNCHANGED <<now, twin, pipevars>>

\* the caller hands back the list the last get_queued_events returned
T_requeue_queued_events ==
    \E fault \in EngineFaults(buf) :
        LET r == requeue_queued_events(buf, ret, fault) IN
        /\ MayFault(buf, fault)
        /\ r.buf.stats.buffered_events <= MaxGauge
        /\ buf' = r.buf
        /\ hist' = Track(hist, Tag("requeue", r))
        /\ retPrev' = <<>>
        /\ snap' = KeepSnap(hist')
        /\ adds' = NoAdds(r.buf)
        /\ objlog' = [objlog EXCEPT !.expired_at = KeepExpiredAt(hist'),
                                   !.exc = r.exc]
        /\ UNCHANGED <<now, ret, twin, pipevars>>

T_delete_queued_events ==
    \E fault \in EngineFaults(buf) :
        LET r == delete_queued_events(buf, fault) IN
        /\ MayFault(buf, fault)
        /\ buf' = r.buf
        /\ hist' = Track(hist, Tag("delete", r))
        /\ retPrev' = <<>>
        /\ snap' = KeepSnap(hist')
        /\ adds' = NoAdds(r.buf)
        /\ objlog' = [objlog EXCEPT !.expired_at = KeepExpiredAt(hist'),
                                   !.exc = r.exc]
        /\ UNCHANGED <<now, ret, twin, pipevars>>

T_expire_events ==
    \E fault \in EngineFaults(buf) :
        LET r == expire_events(buf, now, fault) IN
        /\ MayFault(buf, fault)
        /\ buf' = r.buf
        /\ hist' = Track(hist, Tag("expire", r))
        /\ retPrev' = <<>>
        /\ snap' = KeepSnap(hist')
        /\ adds' = NoAdds(r.buf)
        /\ objlog' = [objlog EXCEPT !.expired_at =
                                     IF r.exc = "none" THEN now ELSE None,
                                   !.exc = r.exc]
        /\ UNCHANGED <<now, ret, twin, pipevars>>

\* the process stops and a new DatabaseCache is constructed on the file
T_reopen ==
    /\ buf.kind = "db"
    /\ buf' = Db_reopen(buf)
    /\ hist' = Track(hist, "reopen")
    /\ ret' = <<>>
    /\ retPrev' = <<>>
    /\ snap' = KeepSnap(hist')
    /\ adds' = NoAdds(buf')
    /\ objlog' = [add_calls |-> 0, reopened |-> TRUE, expired_at |-> None,
                   exc |-> "none"]
    /\ UNCHANGED <<now, twin, pipevars>>

Tick ==
    /\ now < MaxTime
    /\ now' = now + 1
    /\ UNCHANGED <<buf, obsvars, pipevars>>

vars == <<bufvars, obsvars, pipevars>>

NextBuf ==
    \/ T_add_event
    \/ T_get_queued_events
    \/ T_requeue_queued_events
    \/ T_delete_queued_events
    \/ T_expire_events
    \/ T_reopen
    \/ Tick

SpecBuf == InitBuf /\ [][NextBuf]_vars


(* ------------- Spec: handler, worker thread and transport ------------- *)
\* AsynchronousLogHandler._worker_thread_is_running
worker_thread_is_running == wpc \notin {"none", "dead"}

\* no observation of the buffer test driver is made in this specification
NoTest ==
    /\ hist = <<>>
    /\ ret = <<>>
    /\ retPrev = <<>>
    /\ snap = NoSnap
    /\ adds = NoAdds(buf)
    /\ twin = NoTwin

\* the buffer the handler is constructed with
Init ==
    /\ buf \in {NewBuffer(k, ttl, lim[1], lim[2]) :
                  k \in {"db", "mem"}, ttl \in TTLs,
                  lim \in {<<None, FALSE>>, <<2, TRUE>>}}
    /\ now = 0
    /\ NoTest
    /\ objlog = NewObject
    /\ NoWorker
    /\ NoLog
    /\ enable = AllEnabled

\* guard of an injected fault in the pipeline
MayInject(fault) == fault # "none" => faults < MaxFaults

Injected(fault) == IF fault # "none" THEN faults + 1 ELSE faults

(* ---- application thread ---- *)
\* emit: start the worker thread if none is running, format the record and
\* enqueue it; the record's payload is its sequence number
emit ==
    /\ hpc \in {"idle", "closed"}
    /\ emitted < MaxEmit
    /\ emitted' = emitted + 1
    /\ hpc' = "idle"
    /\ IF worker_thread_is_running
       THEN /\ queue' = Append(queue, emitted + 1)
            /\ wstats' = [wstats EXCEPT !.events_total = @ + 1]
            /\ UNCHANGED <<runs, wpc, shutdown_event, flush_event, held_event, force, final,
                           last_event_flush_date, non_flushed_event_count, obs,
                           closevars>>
       ELSE \* LogProcessingWorker.__init__, start(), then enqueue_event
            /\ runs' = runs + 1
            /\ wpc' = "start"
            /\ queue' = <<emitted + 1>>
            /\ wstats' = [NewWorkerStats EXCEPT !.events_total = 1]
            /\ shutdown_event' = FALSE
            /\ flush_event' = FALSE
            /\ held_event' = None
            /\ force' = FALSE
            /\ final' = FALSE
            /\ last_event_flush_date' = None
            /\ non_flushed_event_count' = None
            /\ obs' = NoObs
            /\ exited' = ""
            /\ transport_closed' = FALSE
    /\ UNCHANGED <<bufvars, obsvars, tstats, received, faults, acked, acked_total,
                   resent, send_failed, thrvars, logvars>>

\* Handler.flush
flush ==
    /\ hpc = "idle"
    /\ worker_thread_is_running
    /\ flush_event' = TRUE
    /\ UNCHANGED <<closevars, thrvars, logvars, bufvars, obsvars, appvars, wpc, queue, shutdown_event, held_event, force,
                   final, last_event_flush_date, non_flushed_event_count, wstats,
                   sendvars>>

\* mutant: close() waits for the worker without signalling it
shutdown_NoSignal ==
    /\ hpc \in {"idle", "closed"}
    /\ hpc' = IF worker_thread_is_running THEN "joining" ELSE "closed"
    /\ UNCHANGED shutdown_event
    /\ UNCHANGED <<closevars, thrvars, logvars, bufvars, obsvars, emitted, runs, wpc, queue,
                   flush_event, held_event, force, final, last_event_flush_date,
                   non_flushed_event_count, wstats, sendvars>>

\* close -> shutdown: with a running worker signal it and wait in join; with
\* none (also on a repeated close) do nothing
shutdown ==
    /\ hpc \in {"idle", "closed"}
    /\ IF worker_thread_is_running
       THEN /\ shutdown_event' = TRUE
            /\ hpc' = "joining"
       ELSE /\ hpc' = "closed"
            /\ UNCHANGED shutdown_event
    /\ UNCHANGED <<closevars, thrvars, logvars, bufvars, obsvars, emitted, runs, wpc, queue, flush_event, held_event,
                   force, final, last_event_flush_date, non_flushed_event_count,
                   wstats, sendvars>>

\* mutant: the handler does not wait for the thread to end
wait_for_worker_thread_NoJoin ==
    /\ hpc = "joining"
    /\ wpc' = "none"
    /\ hpc' = "closed"
    /\ transport_closed' = TRUE
    /\ UNCHANGED <<exited, thrvars, logvars, bufvars, obsvars, emitted, runs, queue,
                   shutdown_event, flush_event, held_event, force, final,
                   last_event_flush_date, non_flushed_event_count, wstats, sendvars>>

\* join returns once the thread has ended; the reference is cleared and the
\* transport closed
wait_for_worker_thread ==
    /\ hpc = "joining"
    /\ wpc = "dead"
    /\ wpc' = "none"
    /\ hpc' = "closed"
    /\ transport_closed' = TRUE
    /\ UNCHANGED <<exited, thrvars, logvars, bufvars, obsvars, emitted, runs, queue, shutdown_event, flush_event,
                   held_event, force, final, last_event_flush_date,
                   non_flushed_event_count, wstats, sendvars>>

(* ---- transport ---- *)
\* UdpTransport.send / TcpTransport: outcome -1 is a failure of
\* _create_socket, outcome k < Len(events) a socket error after k events
\* went out, outcome Len(events) a send that returns
Transport_send(ts, events, outcome) ==
    IF outcome < 0
    THEN [tstats |-> ts, delivered |-> <<>>, exc |-> "socket.error"]
    ELSE IF outcome < Len(events)
    THEN [tstats |-> [ts EXCEPT !.errors_total = @ + 1],
          delivered |-> SubSeq(events, 1, outcome), exc |-> "socket.error"]
    ELSE [tstats |-> [ts EXCEPT !.sent_msgs = @ + Len(events)],
          delivered |-> events, exc |-> "none"]

Outcomes(events) == (-1) .. Len(events)

\* self._stats.sent(n): LogStats defines send, not sent
WorkerStats_sent(ws, n) == [wstats |-> ws, exc |-> "AttributeError"]

\* LogProcessingWorker._send_events
send_events(ws, ts, events, outcome) ==
    LET t == Transport_send(ts, events, outcome) IN
    IF t.exc # "none"
    THEN [wstats |-> ws, tstats |-> t.tstats, delivered |-> t.delivered,
          exc |-> t.exc, returned |-> FALSE]
    ELSE LET c == WorkerStats_sent(ws, Len(events)) IN
         [wstats |-> c.wstats, tstats |-> t.tstats, delivered |-> t.delivered,
          exc |-> c.exc, returned |-> TRUE]

(* ---- worker thread ---- *)
\* run: _reset_flush_counters, _setup_logger
run ==
    /\ wpc = "start"
    /\ last_event_flush_date' = now
    /\ non_flushed_event_count' = 0
    /\ wpc' = "loop"
    /\ UNCHANGED <<closevars, thrvars, logvars, bufvars, obsvars, appvars, queue, shutdown_event, flush_event, held_event,
                   force, final, wstats, sendvars>>

\* _fetch_event raises Empty
fetch_event_Empty ==
    /\ wpc = "loop"
    /\ queue = <<>>
    /\ wpc' = "empty"
    /\ UNCHANGED <<closevars, thrvars, logvars, bufvars, obsvars, appvars, queue, shutdown_event, flush_event, held_event,
                   force, final, last_event_flush_date, non_flushed_event_count,
                   wstats, sendvars>>

\* mutant: the flush follows every stored event, without an empty poll
process_event_ThenFlush ==
    /\ wpc = "loop"
    /\ queue # <<>>
    /\ buf.stats.events_total < MaxEventsTotal
    /\ \E fault \in Faults(buf) :
        LET r == add_event(buf, Head(queue), now, fault) IN
        /\ MayInject(fault)
        /\ faults' = Injected(fault)
        /\ queue' = Tail(queue)
        /\ buf' = r.buf
        /\ objlog' = [objlog EXCEPT !.add_calls = @ + 1]
        /\ IF r.exc = "none"
           THEN /\ non_flushed_event_count' = non_flushed_event_count + 1
                /\ held_event' = None
                /\ wpc' = "flush"
           ELSE \* DatabaseLockedError, or any other error as ProcessingError
                /\ held_event' = Head(queue)
                /\ wpc' = "failed"
                /\ UNCHANGED non_flushed_event_count
    /\ UNCHANGED <<closevars, thrvars, logvars, now, hist, ret, retPrev, snap, adds, twin, appvars, shutdown_event, flush_event, force, final,
                   last_event_flush_date, wstats, tstats, received, acked,
                   acked_total, resent, send_failed, obs>>

\* _fetch_event, _process_event
process_event ==
    /\ wpc = "loop"
    /\ queue # <<>>
    /\ buf.stats.events_total < MaxEventsTotal
    /\ \E fault \in Faults(buf) :
        LET r == add_event(buf, Head(queue), now, fault) IN
        /\ MayInject(fault)
        /\ faults' = Injected(fault)
        /\ queue' = Tail(queue)
        /\ buf' = r.buf
        /\ objlog' = [objlog EXCEPT !.add_calls = @ + 1]
        /\ IF r.exc = "none"
           THEN /\ non_flushed_event_count' = non_flushed_event_count + 1
                /\ held_event' = None
                /\ wpc' = "loop"
           ELSE \* DatabaseLockedError, or any other error as ProcessingError
                /\ held_event' = Head(queue)
                /\ wpc' = "failed"
                /\ UNCHANGED non_flushed_event_count
    /\ UNCHANGED <<closevars, thrvars, logvars, now, hist, ret, retPrev, snap, adds, twin, appvars, shutdown_event, flush_event, force, final,
                   last_event_flush_date, wstats, tstats, received, acked,
                   acked_total, resent, send_failed, obs>>

\* except (DatabaseLockedError, ProcessingError)
process_event_failed ==
    /\ wpc = "failed"
    /\ IF shutdown_event
       THEN /\ wpc' = "dead"
            /\ exited' = "no_flush"
            /\ UNCHANGED queue
       ELSE /\ queue' = Append(queue, held_event)
            /\ wpc' = "loop"
            /\ UNCHANGED exited
    /\ UNCHANGED <<transport_closed, thrvars, logvars, bufvars, obsvars, appvars, shutdown_event, flush_event, held_event, force,
                   final, last_event_flush_date, non_flushed_event_count, wstats,
                   sendvars>>

\* except Empty: the shutdown check and the read of the force-flush signal
queue_empty ==
    /\ wpc = "empty"
    /\ final' = shutdown_event
    /\ force' = (shutdown_event \/ flush_event)
    /\ wpc' = "flush"
    /\ UNCHANGED <<closevars, thrvars, logvars, bufvars, obsvars, appvars, queue, shutdown_event, flush_event, held_event,
                   last_event_flush_date, non_flushed_event_count, wstats, sendvars>>

queued_event_interval_reached ==
    now - last_event_flush_date > QUEUED_EVENTS_FLUSH_INTERVAL

queued_event_count_reached ==
    non_flushed_event_count > QUEUED_EVENTS_FLUSH_COUNT

\* where the worker goes when _flush_queued_events returns / raises
AfterFlush == IF final THEN "dead" ELSE "expire"

\* _fetch_events returns after the flush that followed a shutdown request
ExitAfterFlush == IF final THEN "final_flush" ELSE exited

\* _flush_queued_events returns at once: no threshold reached, not forced
flush_not_due ==
    /\ wpc = "flush"
    /\ ~force /\ ~queued_event_interval_reached /\ ~queued_event_count_reached
    /\ wpc' = AfterFlush
    /\ exited' = ExitAfterFlush
    /\ obs' = NoObs
    /\ UNCHANGED <<transport_closed, thrvars, logvars, bufvars, obsvars, appvars, queue, shutdown_event, flush_event, held_event,
                   force, final, last_event_flush_date, non_flushed_event_count,
                   wstats, tstats, received, faults, acked, acked_total, resent,
                   send_failed>>

\* mutant: the flush counters are reset although no batch was sent
flush_nothing_Reset ==
    /\ wpc = "flush"
    /\ force \/ queued_event_interval_reached \/ queued_event_count_reached
    /\ \E fault \in EngineFaults(buf) :
        LET g == get_queued_events(buf, fault) IN
        /\ MayInject(fault)
        /\ g.exc # "none" \/ g.ret = <<>>
        /\ faults' = Injected(fault)
        /\ buf' = g.buf
        /\ obs' = [NoObs EXCEPT !.get = IF g.exc # "none" THEN "raised" ELSE "empty"]
    /\ flush_event' = FALSE
    /\ wpc' = AfterFlush
    /\ exited' = ExitAfterFlush
    /\ last_event_flush_date' = now
    /\ non_flushed_event_count' = 0
    /\ UNCHANGED <<transport_closed, thrvars, logvars, now, obsvars, appvars, queue, shutdown_event, held_event, force, final,
                   wstats, tstats,
                   received, acked, acked_total, resent, send_failed>>

\* _flush_queued_events: get_queued_events raises, or returns no event
flush_nothing ==
    /\ wpc = "flush"
    /\ force \/ queued_event_interval_reached \/ queued_event_count_reached
    /\ \E fault \in EngineFaults(buf) :
        LET g == get_queued_events(buf, fault) IN
        /\ MayInject(fault)
        /\ g.exc # "none" \/ g.ret = <<>>
        /\ faults' = Injected(fault)
        /\ buf' = g.buf
        /\ obs' = [NoObs EXCEPT !.get = IF g.exc # "none" THEN "raised" ELSE "empty"]
    /\ flush_event' = FALSE
    /\ wpc' = AfterFlush
    /\ exited' = ExitAfterFlush
    /\ UNCHANGED <<transport_closed, thrvars, logvars, now, obsvars, appvars, queue, shutdown_event, held_event, force, final,
                   last_event_flush_date, non_flushed_event_count, wstats, tstats,
                   received, acked, acked_total, resent, send_failed>>

\* _flush_queued_events with a batch: _send_events, then in the else branch
\* delete_queued_events and _reset_flush_counters, in the except branch
\* requeue_queued_events; an exception of requeue_queued_events leaves
\* _fetch_events and ends the thread
flush_queued_events ==
    /\ wpc = "flush"
    /\ force \/ queued_event_interval_reached \/ queued_event_count_reached
    /\ LET g == get_queued_events(buf, "none") IN
       /\ g.ret # <<>>
       /\ \E outcome \in Outcomes(g.ret), fault \in Faults(buf) :
            LET s == send_events(wstats, tstats, Texts(g.ret), outcome)
                inject == (IF outcome # Len(g.ret) THEN 1 ELSE 0)
                          + (IF fault # "none" THEN 1 ELSE 0)
                d == delete_queued_events(g.buf, fault)
                q == requeue_queued_events(g.buf, g.ret, fault)
            IN
            /\ faults + inject <= MaxFaults
            /\ Len(received) + Len(s.delivered) <= MaxRecv
            /\ faults' = faults + inject
            /\ received' = received \o s.delivered
            /\ tstats' = s.tstats
            /\ wstats' = s.wstats
            /\ send_failed' = (send_failed \/ ~s.returned)
            /\ resent' = (resent \/ Ids(g.ret) \cap acked # {})
            /\ acked' = IF s.returned THEN acked \cup Ids(g.ret) ELSE acked
            /\ acked_total' = IF s.returned THEN acked_total + Len(g.ret)
                              ELSE acked_total
            /\ IF s.exc = "none"
               THEN /\ buf' = d.buf
                    /\ last_event_flush_date' = now
                    /\ non_flushed_event_count' = 0
                    /\ wpc' = AfterFlush
                    /\ exited' = ExitAfterFlush
               ELSE /\ buf' = q.buf
                    /\ UNCHANGED <<last_event_flush_date, non_flushed_event_count>>
                    /\ wpc' = IF q.exc = "none" THEN AfterFlush ELSE "dead"
                    /\ exited' = IF q.exc = "none" THEN ExitAfterFlush ELSE "raised"
            /\ obs' = [send |-> IF s.returned THEN "ok" ELSE "raised",
                       batch |-> Ids(g.ret),
                       deleted |-> s.exc = "none",
                       requeued |-> s.exc # "none",
                       reset |-> s.exc = "none",
                       get |-> "batch"]
    /\ flush_event' = FALSE
    /\ UNCHANGED <<now, obsvars, appvars, queue, shutdown_event, held_event, force, final,
                   transport_closed, thrvars, logvars>>

\* _delay_processing, then _expire_events (a lock conflict is swallowed)
expire ==
    /\ wpc = "expire"
    /\ \E fault \in Faults(buf) :
        /\ MayInject(fault)
        /\ buf.event_ttl = None => fault = "none"
        /\ faults' = Injected(fault)
        /\ buf' = expire_events(buf, now, fault).buf
    /\ wpc' = "loop"
    /\ obs' = NoObs
    /\ UNCHANGED <<closevars, thrvars, logvars, now, obsvars, appvars, queue, shutdown_event, flush_event, held_event,
                   force, final, last_event_flush_date, non_flushed_event_count,
                   wstats, tstats, received, acked, acked_total, resent, send_failed>>

Next ==
    \/ emit
    \/ flush
    \/ shutdown
    \/ wait_for_worker_thread
    \/ run
    \/ fetch_event_Empty
    \/ process_event
    \/ process_event_failed
    \/ queue_empty
    \/ flush_not_due
    \/ flush_nothing
    \/ flush_queued_events
    \/ expire
    \/ Tick

Spec == Init /\ [][Next]_vars

(* ---- SpecClose: the pipeline under fair scheduling, clock held still ---- *)
\* one step of the worker thread
WorkerStep ==
    \/ run
    \/ fetch_event_Empty
    \/ process_event
    \/ process_event_failed
    \/ queue_empty
    \/ flush_not_due
    \/ flush_nothing
    \/ flush_queued_events
    \/ expire

NextClose ==
    \/ emit
    \/ flush
    \/ shutdown
    \/ wait_for_worker_thread
    \/ WorkerStep

\* the worker thread keeps being scheduled, and so does the thread that
\* waits in join; the application is free to stop calling the handler
SpecClose ==
    /\ Init
    /\ [][NextClose]_vars
    /\ WF_vars(WorkerStep)
    /\ WF_vars(wait_for_worker_thread)

(* --- SpecThreads: application threads racing on the class attribute --- *)
\* The worker reference is a class attribute shared by every handler
\* instance, while the lock logging.Handler takes around emit and close
\* belongs to one instance: threads that use different handler instances
\* run emit and close without excluding each other.  The worker is reduced
\* to what the handler sees of it: started, alive, signalled, its queue.

\* everything outside the handler's thread coordination
restvars == <<bufvars, obsvars, appvars, workervars, sendvars, closevars, logvars>>

\* _worker_thread_is_running: the reference is not None and is_alive()
class_worker_is_running == worker_thread # 0 /\ worker_thread \in alive

InitThreads ==
    /\ buf = NewBuffer("mem", None, None, FALSE)
    /\ now = 0
    /\ NoTest
    /\ objlog = NewObject
    /\ NoWorker
    /\ NoLog
    /\ enable \in [Threads -> BOOLEAN]

\* a call returns (or raises) to the application
Return(t, how) ==
    /\ tpc' = [tpc EXCEPT ![t] = "idle"]
    /\ result' = [result EXCEPT ![t] = how]

\* mutant: emit does not test self._enable
t_emit_NoEnableTest(t) ==
    /\ tpc[t] = "idle"
    /\ calls[t] < MaxCalls
    /\ calls' = [calls EXCEPT ![t] = @ + 1]
    /\ result' = [result EXCEPT ![t] = ""]
    /\ tpc' = [tpc EXCEPT ![t] = IF class_worker_is_running THEN "format"
                                 ELSE "construct"]
    /\ UNCHANGED <<restvars, enable, owner, delivered, counted, local, worker_thread, created, started, alive, signalled,
                   enqueued>>

\* emit begins: with enable false it returns at once; otherwise
\* _start_worker_thread tests _worker_thread_is_running
t_emit(t) ==
    /\ tpc[t] = "idle"
    /\ calls[t] < MaxCalls
    /\ calls' = [calls EXCEPT ![t] = @ + 1]
    /\ IF ~enable[t]
       THEN /\ result' = [result EXCEPT ![t] = "disabled"]
            /\ UNCHANGED tpc
       ELSE /\ result' = [result EXCEPT ![t] = ""]
            /\ tpc' = [tpc EXCEPT ![t] = IF class_worker_is_running THEN "format"
                                         ELSE "construct"]
    /\ UNCHANGED <<restvars, enable, owner, delivered, counted, local, worker_thread, created, started, alive, signalled,
                   enqueued>>

\* AsynchronousLogHandler._worker_thread = LogProcessingWorker(...)
t_construct(t) ==
    /\ tpc[t] = "construct"
    /\ created < MaxWorkers
    /\ created' = created + 1
    /\ worker_thread' = created + 1
    /\ enqueued' = Append(enqueued, 0)
    /\ owner' = Append(owner, t)
    /\ counted' = Append(counted, 0)
    /\ tpc' = [tpc EXCEPT ![t] = "start"]
    /\ UNCHANGED <<restvars, enable, delivered, local, started, alive, signalled, calls,
                   result>>

\* AsynchronousLogHandler._worker_thread.start(): the attribute is read
\* again; None has no start (AttributeError), a thread that was started
\* before raises RuntimeError; both leave emit, the call is outside its try
t_start(t) ==
    /\ tpc[t] = "start"
    /\ IF worker_thread = 0 \/ worker_thread \in started
       THEN /\ Return(t, "raised")
            /\ UNCHANGED <<started, alive>>
       ELSE /\ started' = started \cup {worker_thread}
            /\ alive' = alive \cup {worker_thread}
            /\ tpc' = [tpc EXCEPT ![t] = "format"]
            /\ UNCHANGED result
    /\ UNCHANGED <<restvars, enable, owner, delivered, counted, local, worker_thread, created, signalled, enqueued, calls>>

\* _format_record inside the try: an exception of the formatter goes to
\* handleError and nothing is enqueued
t_format(t) ==
    /\ tpc[t] = "format"
    /\ \E ok \in BOOLEAN :
        IF ok THEN /\ tpc' = [tpc EXCEPT ![t] = "enqueue"]
                   /\ UNCHANGED result
              ELSE Return(t, "handled")
    /\ UNCHANGED <<restvars, enable, owner, delivered, counted, local, worker_thread, created, started, alive, signalled,
                   enqueued, calls>>

\* AsynchronousLogHandler._worker_thread.enqueue_event(data) inside the try:
\* with the reference cleared the AttributeError goes to handleError;
\* otherwise enqueue_event runs in the calling thread and self._stats.event()
\* begins: Value.inc loads _value (self._value += n is a load, an add and a
\* store, and no lock is held between them)
t_enqueue(t) ==
    /\ tpc[t] = "enqueue"
    /\ IF worker_thread = 0
       THEN /\ Return(t, "handled")
            /\ UNCHANGED local
       ELSE /\ local' = [local EXCEPT ![t] = <<worker_thread, counted[worker_thread]>>]
            /\ tpc' = [tpc EXCEPT ![t] = "store"]
            /\ UNCHANGED result
    /\ UNCHANGED <<restvars, enable, owner, delivered, counted, worker_thread, created,
                   started, alive, signalled, enqueued, calls>>

\* Value.inc stores the loaded value plus one, then self._queue.put(event)
\* puts the record on the queue of the worker enqueue_event was called on
t_store(t) ==
    /\ tpc[t] = "store"
    /\ counted' = [counted EXCEPT ![local[t][1]] = local[t][2] + 1]
    /\ enqueued' = [enqueued EXCEPT ![local[t][1]] = @ + 1]
    /\ delivered' = delivered \cup {<<t, owner[local[t][1]]>>}
    /\ local' = [local EXCEPT ![t] = None]
    /\ Return(t, "ok")
    /\ UNCHANGED <<restvars, enable, owner, worker_thread, created, started, alive,
                   signalled, calls>>

\* close -> shutdown begins: with no running worker it does nothing
t_close(t) ==
    /\ tpc[t] = "idle"
    /\ calls[t] < MaxCalls
    /\ calls' = [calls EXCEPT ![t] = @ + 1]
    /\ result' = [result EXCEPT ![t] = ""]
    /\ tpc' = [tpc EXCEPT ![t] = IF class_worker_is_running THEN "trigger"
                                 ELSE "idle"]
    /\ UNCHANGED <<restvars, enable, owner, delivered, counted, local, worker_thread, created, started, alive, signalled,
                   enqueued>>

\* _trigger_worker_shutdown: the attribute is read again
t_trigger(t) ==
    /\ tpc[t] = "trigger"
    /\ IF worker_thread = 0
       THEN /\ Return(t, "close_raised")
            /\ UNCHANGED signalled
       ELSE /\ signalled' = signalled \cup {worker_thread}
            /\ tpc' = [tpc EXCEPT ![t] = "join"]
            /\ UNCHANGED result
    /\ UNCHANGED <<restvars, enable, owner, delivered, counted, local, worker_thread, created, started, alive, enqueued, calls>>

\* _wait_for_worker_thread: join on None or on a thread that was never
\* started raises; otherwise it returns when the thread has ended
t_join(t) ==
    /\ tpc[t] = "join"
    /\ IF worker_thread = 0 \/ worker_thread \notin started
       THEN Return(t, "close_raised")
       ELSE /\ worker_thread \notin alive
            /\ tpc' = [tpc EXCEPT ![t] = "reset"]
            /\ UNCHANGED result
    /\ UNCHANGED <<restvars, enable, owner, delivered, counted, local, worker_thread, created, started, alive, signalled,
                   enqueued, calls>>

\* _reset_worker_thread, _close_transport
t_reset(t) ==
    /\ tpc[t] = "reset"
    /\ worker_thread' = 0
    /\ Return(t, "closed")
    /\ UNCHANGED <<restvars, enable, owner, delivered, counted, local, created, started, alive, signalled, enqueued, calls>>

\* a signalled worker thread ends (LogProcessingWorker.run returns)
w_exit(w) ==
    /\ w \in alive
    /\ w \in signalled
    /\ alive' = alive \ {w}
    /\ UNCHANGED <<restvars, enable, owner, delivered, counted, local, worker_thread, created, started, signalled, enqueued,
                   tpc, calls, result>>

NextThreads ==
    \/ \E t \in Threads :
        \/ t_emit(t)
        \/ t_construct(t)
        \/ t_start(t)
        \/ t_format(t)
        \/ t_enqueue(t)
        \/ t_store(t)
        \/ t_close(t)
        \/ t_trigger(t)
        \/ t_join(t)
        \/ t_reset(t)
    \/ \E w \in 1..MaxWorkers : w_exit(w)

SpecThreads == InitThreads /\ [][NextThreads]_vars

(* ---- SpecTwin: a DatabaseCache and a MemoryCache driven in step ---- *)
\* Both buffers are constructed with the same event_ttl, max_size and
\* overflow_fn and receive the same calls at the same times; requeue hands
\* each buffer the list its own last get_queued_events returned.  No lock
\* conflict is injected.
InitTwin ==
    /\ \E ttl \in TTLs, lim \in Limits :
        /\ buf = NewBuffer("db", ttl, lim[1], lim[2])
        /\ twin = [buf |-> NewBuffer("mem", ttl, lim[1], lim[2]), ret |-> <<>>]
    /\ now = 0
    /\ hist = <<>>
    /\ ret = <<>>
    /\ retPrev = <<>>
    /\ snap = NoSnap
    /\ adds = NoAdds(buf)
    /\ objlog = NewObject
    /\ NoWorker
    /\ NoLog
    /\ enable = AllEnabled

\* what a step of the pair leaves alone
twinrest == <<now, hist, retPrev, snap, adds, objlog, pipevars>>

Tw_add_event ==
    \E event \in Payloads :
        LET d == add_event(buf, event, now, "none")
            m == add_event(twin.buf, event, now, "none") IN
        /\ buf.stats.events_total < MaxEventsTotal
        /\ d.buf.next_id <= MaxId + 1
        /\ m.buf.next_id <= MaxId + 1
        /\ buf' = d.buf
        /\ twin' = [twin EXCEPT !.buf = m.buf]
        /\ UNCHANGED <<ret, twinrest>>

Tw_get_queued_events ==
    LET d == get_queued_events(buf, "none")
        m == get_queued_events(twin.buf, "none") IN
    /\ buf' = d.buf
    /\ ret' = d.ret
    /\ twin' = [buf |-> m.buf, ret |-> m.ret]
    /\ UNCHANGED twinrest

Tw_requeue_queued_events ==
    LET d == requeue_queued_events(buf, ret, "none")
        m == requeue_queued_events(twin.buf, twin.ret, "none") IN
    /\ d.buf.stats.buffered_events <= MaxGauge
    /\ m.buf.stats.buffered_events <= MaxGauge
    /\ buf' = d.buf
    /\ twin' = [twin EXCEPT !.buf = m.buf]
    /\ UNCHANGED <<ret, twinrest>>

Tw_delete_queued_events ==
    /\ buf' = delete_queued_events(buf, "none").buf
    /\ twin' = [twin EXCEPT !.buf = delete_queued_events(twin.buf, "none").buf]
    /\ UNCHANGED <<ret, twinrest>>

Tw_expire_events ==
    /\ buf' = expire_events(buf, now, "none").buf
    /\ twin' = [twin EXCEPT !.buf = expire_events(twin.buf, now, "none").buf]
    /\ UNCHANGED <<ret, twinrest>>

Tw_Tick ==
    /\ now < MaxTime
    /\ now' = now + 1
    /\ UNCHANGED <<buf, obsvars, pipevars>>

NextTwin ==
    \/ Tw_add_event
    \/ Tw_get_queued_events
    \/ Tw_requeue_queued_events
    \/ Tw_delete_queued_events
    \/ Tw_expire_events
    \/ Tw_Tick

SpecTwin == InitTwin /\ [][NextTwin]_vars

(* -------- SpecLog: the worker's diagnostics and their rate limit ------- *)
InitLog ==
    /\ buf = NewBuffer("mem", None, None, FALSE)
    /\ now = 0
    /\ NoTest
    /\ objlog = NewObject
    /\ NoWorker
    /\ enable = AllEnabled
    /\ rate_limit_item \in RateLimits
    /\ rate_limit_storage = NewStorage
    /\ window_log = NewWindowLog
    /\ last_log = NoLogCall
    /\ log_calls = 0

\* _safe_log(level, message, exc=exc): after a shutdown request the message
\* is printed; otherwise it is dropped when the limiter has nothing left for
\* the key, annotated when it has one left, and handed to the logger
safe_log ==
    /\ log_calls < MaxLogCalls
    /\ log_calls' = log_calls + 1
    /\ \E exc \in Excs \cup {NoExc}, down \in BOOLEAN :
        LET c == rate_limit_check(rate_limit_storage, rate_limit_item, exc, now)
            outcome == IF down THEN "printed"
                       ELSE IF c.remaining <= 0 THEN "suppressed"
                       ELSE IF c.remaining = 1 THEN "annotated"
                       ELSE "plain"
            sent == IF outcome \in {"annotated", "plain"} THEN 1 ELSE 0
        IN
        /\ rate_limit_storage' = IF down THEN rate_limit_storage ELSE c.storage
        /\ last_log' = [exc |-> exc, down |-> down,
                        remaining |-> IF down THEN None ELSE c.remaining,
                        outcome |-> outcome]
        /\ window_log' =
              IF down \/ exc = NoExc \/ rate_limit_item = None
              THEN window_log
              ELSE LET k == factor_rate_limit_key(exc)
                       w == rate_limit_storage'[k].expiry IN
                   IF window_log[k].window = w
                   THEN [window_log EXCEPT ![k].sent = @ + sent]
                   ELSE [window_log EXCEPT ![k] = [window |-> w, sent |-> sent]]
    /\ UNCHANGED <<rate_limit_item, bufvars, obsvars, appvars, workervars, sendvars,
                   closevars, thrvars>>

NextLog ==
    \/ safe_log
    \/ Tick

SpecLog == InitLog /\ [][NextLog]_vars

(* ------------------- properties of the buffer API --------------------- *)
Last(h) == IF h = <<>> THEN "" ELSE h[Len(h)]

\* the step is a get_queued_events / delete_queued_events call that returned
GetStep == now' = now /\ Last(hist') = "get"

DeleteStep == now' = now /\ Last(hist') = "delete"

\* C4: after the durable buffer is opened again on the same file no event is
\* in flight any more, and a get_queued_events that follows the reopening
\* returns every stored event
C4_CrashRecoveryRevertsInFlight ==
    /\ Last(hist) = "reopen" => InFlight(buf) = <<>>
    /\ hist = <<"reopen", "get">> => Ids(buf.rows) \subseteq Ids(ret)

\* C6: get_queued_events returns exactly the events that are buffered when it
\* is called and leaves every returned event in flight; a second
\* get_queued_events directly after a first returns the empty sequence
C6_GetMarksInFlight ==
    /\ [][GetStep =>
            /\ ret' = [i \in DOMAIN Buffered(buf) |-> Ev(Buffered(buf)[i])]
            /\ \A i \in DOMAIN buf'.rows :
                  buf'.rows[i].id \in Ids(ret') => buf'.rows[i].pending_delete
            /\ Ids(ret') \subseteq Ids(buf'.rows)]_vars
    /\ [](hist = <<"get", "get">> => ret = <<>>)

C6_Witness ==
    /\ hist = <<"get", "get">>
    /\ ret = <<>>
    /\ InFlight(buf) # <<>>

\* C7: get -> L, requeue(L), get returns exactly the events of L with the
\* same payloads, and the buffered gauge is 0 after the second get (stated
\* for a non-empty L)
C7_RequeueRoundTrip ==
    hist = <<"get", "requeue", "get">> /\ retPrev # <<>> =>
        /\ ret = retPrev
        /\ buf.stats.buffered_events = 0

\* C8: delete_queued_events removes every in-flight event and leaves every
\* buffered event as it was; an event stored by add_event and followed by
\* delete_queued_events is returned by the next get_queued_events
C8_DeleteKeepsBuffered ==
    /\ [][DeleteStep =>
            /\ \A i \in DOMAIN buf.rows :
                  buf.rows[i].pending_delete => buf.rows[i].id \notin Ids(buf'.rows)
            /\ buf'.rows = Buffered(buf)]_vars
    /\ [](hist = <<"add", "delete", "get">> /\ snap.id # 0 =>
            \E i \in DOMAIN ret : ret[i] = [id |-> snap.id, event_text |-> snap.text])

C8_Witness ==
    /\ hist = <<"add", "delete", "get">>
    /\ snap.id \in Ids(ret)
    /\ buf.stats.events_total > 1
    /\ Len(buf.rows) = 1

\* C9: on a buffer holding no buffered events and with no max_size limit
\* reached, add_event(e1) .. add_event(en) followed by get_queued_events
\* returns exactly the payloads e1 .. en, each once
C9_AddThenGet ==
    adds.got /\ adds.clean /\ ~adds.limit => SameBag(Texts(ret), adds.seq)

\* C10: add_event; get_queued_events; delete_queued_events leaves no stored
\* event, raises events_total by exactly 1, raises the gauge by 1 after the
\* add and returns it to the value before the add after the delete
C10_AddGetDelete ==
    hist = <<"add", "get", "delete">> =>
        /\ buf.rows = <<>>
        /\ buf.stats.events_total = snap.e0 + 1
        /\ snap.g1 = snap.g0 + 1
        /\ buf.stats.buffered_events = snap.g0


\* every add_event call made on the buffer object belongs to the current
\* run of calls, none of them hit a lock conflict, and the object was
\* constructed on an empty store
FreshRun ==
    /\ adds.clean
    /\ ~adds.got
    /\ ~objlog.reopened
    /\ objlog.add_calls = Len(adds.seq)

\* the state the overflow policy prescribes after n add_event calls
Overflowed(b, n) ==
    LET kept == Min(n, b.max_size) IN
    /\ Len(Buffered(b)) = kept
    /\ InFlight(b) = <<>>
    /\ b.stats.buffered_events = kept
    /\ b.stats.discarded_total = n - kept
    /\ b.overflow_fn => b.overflow_calls = n - kept

\* C17: a DatabaseCache with max_size = N after n add_event calls and nothing
\* else stores Min(n, N) buffered events, buffered_events = Min(n, N),
\* discarded_total = n - Min(n, N), overflow_fn was invoked once per discard,
\* and no add_event call raised
C17_DbOverflow ==
    buf.kind = "db" /\ buf.max_size # None /\ FreshRun =>
        /\ Overflowed(buf, Len(adds.seq))
        /\ ~adds.raised

\* C18: a MemoryCache with max_size = N never stores more than N events, and
\* after n add_event calls and nothing else it stores Min(n, N) events,
\* buffered_events = Min(n, N), discarded_total = n - Min(n, N) and
\* overflow_fn was invoked once per discard
C18_MemOverflow ==
    buf.kind = "mem" /\ buf.max_size # None =>
        /\ Len(buf.rows) <= buf.max_size
        /\ FreshRun => Overflowed(buf, Len(adds.seq)) /\ ~adds.raised

C18_Witness ==
    /\ buf.kind = "mem"
    /\ buf.overflow_fn
    /\ FreshRun
    /\ Len(adds.seq) = buf.max_size + 1
    /\ buf.stats.discarded_total = 1
    /\ buf.overflow_calls = 1
    /\ Len(buf.rows) = buf.max_size

\* C19: on a buffer object constructed on an empty store, after any sequence
\* of add, get, requeue, delete and expire the buffered_events gauge equals
\* the number of stored events that are buffered, and is not negative
C19_GaugeEqualsBuffered ==
    ~objlog.reopened =>
        /\ buf.stats.buffered_events = Len(Buffered(buf))
        /\ buf.stats.buffered_events >= 0

\* the step constructs a new buffer object on the file
ReopenStep == now' = now /\ Last(hist') = "reopen"

\* C20: events_total equals the number of add_event calls made on the buffer
\* object, whatever their outcome; it never decreases and only add_event
\* changes it
C20_EventsTotalCountsAdds ==
    /\ [](buf.stats.events_total = objlog.add_calls)
    /\ [][ReopenStep \/
            /\ buf'.stats.events_total >= buf.stats.events_total
            /\ buf'.stats.events_total - buf.stats.events_total
                 = objlog'.add_calls - objlog.add_calls]_vars

C20_Witness ==
    /\ buf.kind = "db"
    /\ buf.stats.lock_errors_total = 1
    /\ buf.stats.events_total = 3
    /\ objlog.add_calls = 3
    /\ Len(buf.rows) = 2

\* the step is an expire_events call that returned
ExpireStep == now' = now /\ Last(hist') = "expire"

\* the reading of the buffer's clock at wall clock t, and its TTL, in the
\* unit of the stored entry_date
ClockOf(b, t) == IF b.kind = "db" THEN Db_datetime(t) ELSE t

TtlOf(b) == IF b.kind = "db" THEN b.event_ttl ELSE b.event_ttl * TicksPerSecond

\* expire_events with a TTL removes exactly the stored events whose
\* entry_date is older than the clock minus the TTL, in flight or not, keeps
\* the others as they are and counts the removed ones as discarded; without
\* a TTL it changes nothing
ExpireRemovesDue ==
    [][ExpireStep =>
        IF buf.event_ttl = None
        THEN buf' = buf
        ELSE /\ \A i \in DOMAIN buf.rows :
                   (buf.rows[i].entry_date < ClockOf(buf, now) - TtlOf(buf))
                     <=> buf.rows[i].id \notin Ids(buf'.rows)
             /\ \A j \in DOMAIN buf'.rows : \E i \in DOMAIN buf.rows :
                   buf'.rows[j] = buf.rows[i]
             /\ buf'.stats.discarded_total
                  = buf.stats.discarded_total + Len(buf.rows) - Len(buf'.rows)]_vars

\* the stored rows of the events get_queued_events has just returned
Returned == SelectSeq(buf.rows, LAMBDA r : r.id \in Ids(ret))

\* C21 (as stated): expire_events removes exactly the events older than now
\* minus TTL; with event_ttl = 0 every event that was added strictly before
\* the expire_events call is removed, so the get_queued_events that follows
\* returns none of them
C21_ExpireRemovesOlder ==
    /\ ExpireRemovesDue
    /\ [](hist = <<"expire", "get">> /\ buf.event_ttl = 0 =>
            \A i \in DOMAIN Returned : ~(Returned[i].added < objlog.expired_at))

\* C21 (amended): as above, with "added before the call" measured on the
\* clock the buffer stores: with event_ttl = 0 every event whose entry_date
\* is earlier than the clock reading of the expire_events call is removed
C21_ExpireByStoredTime ==
    /\ ExpireRemovesDue
    /\ [](hist = <<"expire", "get">> /\ buf.event_ttl = 0 =>
            \A i \in DOMAIN Returned :
                ~(Returned[i].entry_date < ClockOf(buf, objlog.expired_at)))

C21_Witness ==
    /\ buf.kind = "db"
    /\ buf.event_ttl = 0
    /\ hist = <<"expire", "get">>
    /\ ret = <<>>
    /\ buf.rows = <<>>
    /\ buf.stats.discarded_total = 2
    /\ buf.stats.lock_errors_total = 0

\* the step removes or changes an event that was in flight
InFlightTouched ==
    \E i \in DOMAIN buf.rows :
        /\ buf.rows[i].pending_delete
        /\ \A j \in DOMAIN buf'.rows : buf'.rows[j] # buf.rows[i]

\* the step leaves in flight an event that was not in flight before
BecameInFlight ==
    \E j \in DOMAIN buf'.rows :
        /\ buf'.rows[j].pending_delete
        /\ \A i \in DOMAIN buf.rows :
              buf.rows[i].id = buf'.rows[j].id => ~buf.rows[i].pending_delete

\* every stored event is buffered or in flight, and a call on the buffer
\* object puts an event in flight only if it is get_queued_events
InFlightOnlyByGet ==
    /\ [](\A i \in DOMAIN buf.rows : buf.rows[i].pending_delete \in BOOLEAN)
    /\ [][BecameInFlight => T_get_queued_events]_vars

\* C22 (as stated): an in-flight event is removed or changed only by
\* delete_queued_events or requeue_queued_events
C22_InFlightLeavesByDeleteOrRequeue ==
    /\ InFlightOnlyByGet
    /\ [][InFlightTouched =>
            \/ T_delete_queued_events
            \/ T_requeue_queued_events]_vars

\* C22 (amended): an in-flight event is removed or changed only by
\* delete_queued_events, requeue_queued_events or expire_events
C22_InFlightLeavesByDeleteRequeueExpire ==
    /\ InFlightOnlyByGet
    /\ [][InFlightTouched =>
            \/ T_delete_queued_events
            \/ T_requeue_queued_events
            \/ T_expire_events]_vars

\* an expire_events call has removed the only event while it was in flight
C22_Witness ==
    /\ buf.kind = "db"
    /\ buf.event_ttl = 0
    /\ hist = <<"expire">>
    /\ buf.rows = <<>>
    /\ buf.stats.events_total = 1
    /\ buf.stats.discarded_total = 1
    /\ buf.stats.buffered_events = 0
    /\ buf.stats.lock_errors_total = 0
    /\ ~objlog.reopened

\* C23: after the same calls on a new DatabaseCache and a new MemoryCache
\* with the same max_size and TTL, the last get_queued_events returned the
\* same multiset of payloads from both, and events_total, discarded_total
\* and buffered_events are the same in both (stated for buffers without
\* max_size, where no add_event call raises)
C23_SameContract ==
    buf.max_size = None =>
        /\ SameBag(Texts(ret), Texts(twin.ret))
        /\ buf.stats.events_total = twin.buf.stats.events_total
        /\ buf.stats.discarded_total = twin.buf.stats.discarded_total
        /\ buf.stats.buffered_events = twin.buf.stats.buffered_events

\* C35: a requeue_queued_events call that returns raises the buffered gauge
\* by exactly the number of listed events that are stored and in flight, so
\* a second call with the same list adds nothing
C35_RequeueCountsInFlight ==
    [][T_requeue_queued_events /\ objlog'.exc = "none" =>
        buf'.stats.buffered_events = buf.stats.buffered_events
            + Count(buf.rows, LAMBDA r : r.id \in Ids(ret) /\ r.pending_delete)]_vars

\* C36: delete_queued_events leaves discarded_total as it was, in both
\* buffer variants
C36_DeleteCountsNoDiscard ==
    [][T_delete_queued_events =>
        buf'.stats.discarded_total = buf.stats.discarded_total]_vars

\* C37: a durable-buffer call that hits lock contention raises
\* DatabaseLockedError, counts exactly one lock error and leaves the stored
\* events and the buffered gauge as they were; a call that fails with any
\* other engine error raises that error and leaves lock_errors_total (and
\* the stored events and the gauge) alone; nothing else raises the counter
C37_LockContention ==
    /\ [][now' = now /\ objlog'.exc = "DatabaseLockedError" =>
            /\ buf'.stats.lock_errors_total = buf.stats.lock_errors_total + 1
            /\ buf'.rows = buf.rows
            /\ buf'.stats.buffered_events = buf.stats.buffered_events]_vars
    /\ [][now' = now /\ objlog'.exc = "OperationalError" =>
            /\ buf'.stats.lock_errors_total = buf.stats.lock_errors_total
            /\ buf'.rows = buf.rows
            /\ buf'.stats.buffered_events = buf.stats.buffered_events]_vars
    /\ [][buf'.stats.lock_errors_total > buf.stats.lock_errors_total =>
            objlog'.exc = "DatabaseLockedError"]_vars

\* a call on a durable buffer that holds a buffered and an in-flight event
\* has just hit a lock conflict
C37_Witness ==
    /\ objlog.exc = "DatabaseLockedError"
    /\ buf.stats.lock_errors_total = 1
    /\ Len(Buffered(buf)) > 0
    /\ Len(InFlight(buf)) > 0
    /\ buf.stats.buffered_events > 0

(* --------------------- properties of the pipeline --------------------- *)
\* the handler's default buffer configuration: no size limit, no TTL
DefaultBuffer == buf.max_size = None /\ buf.event_ttl = None

\* C1: in a run without lock conflict or socket error, when Transport.send
\* returned during a flush, the worker has called delete_queued_events and
\* reset the flush counters, the events of the batch are no longer in the
\* buffer, and no event of such a batch is passed to Transport.send again
C1_SendSuccessDeletesBatch ==
    faults = 0 =>
        /\ obs.send = "ok" =>
              /\ obs.deleted
              /\ obs.reset
              /\ non_flushed_event_count = 0
              /\ obs.batch \cap Ids(buf.rows) = {}
        /\ ~resent

\* C2: the worker's sent_total equals the number of events in the batches
\* for which Transport.send returned
C2_SentTotalCountsAcked == wstats.sent_total = acked_total

\* C3: with the default buffer and no injected fault, a single producer
\* emits n events and calls close(): when close() returns the collector has
\* received the n events once each in emission order, sent_total = n and the
\* buffer stores no event
C3_CleanShutdownDeliversAll ==
    hpc = "closed" /\ runs = 1 /\ faults = 0 /\ DefaultBuffer =>
        /\ received = [i \in 1..emitted |-> i]
        /\ wstats.sent_total = emitted
        /\ buf.rows = <<>>

\* C5: when Transport.send raised during a flush, the worker has called
\* requeue_queued_events with the batch and every event of the batch is
\* stored in the buffered state when the flush ends
C5_SendFailureRequeuesBatch ==
    obs.send = "raised" =>
        /\ obs.requeued
        /\ obs.batch \subseteq Ids(Buffered(buf))


\* C11: when _fetch_events has returned with shutdown signalled, the worker
\* made a forced flush after its last poll of the queue
C11_FinalFlushOnEveryReturn ==
    wpc = "dead" /\ shutdown_event /\ exited # "raised" => exited = "final_flush"


\* the running worker cannot take its next step within the model's bounds
BoundHit == worker_thread_is_running /\ ~ENABLED WorkerStep

\* C12: once close() has signalled the worker and waits in join, the worker
\* thread ends and close() returns
C12_ShutdownTerminates == (hpc = "joining") ~> (hpc = "closed" \/ BoundHit)

C12_Witness ==
    /\ hpc = "closed"
    /\ exited = "final_flush"
    /\ wpc = "none"
    /\ received # <<>>

\* C14: a flush() call made while the worker is running is followed by a
\* worker flush: the force-flush signal, once set, is cleared again, which
\* only the flush that calls get_queued_events (or a new worker) does
C14_ForceFlushNotLost == flush_event ~> (~flush_event \/ BoundHit)

\* C16: Transport.close is called only after the signalled worker thread has
\* ended and in the step that clears the worker reference; while close()
\* waits the worker is signalled; a close() without a running worker signals
\* nothing and leaves the worker reference and the worker as they are
C16_CloseOrdering ==
    /\ [][transport_closed' /\ ~transport_closed =>
            wpc = "dead" /\ shutdown_event /\ wpc' = "none"]_vars
    /\ [][(hpc # "joining" /\ hpc' = "closed") =>
            (UNCHANGED <<workervars, closevars, sendvars>>)]_vars
    /\ [](hpc = "joining" => shutdown_event)

C16_Witness ==
    /\ transport_closed
    /\ hpc = "closed"
    /\ wpc = "none"
    /\ shutdown_event
    /\ Len(received) = 2


\* C24: a flush whose Transport.send raised has increased the transport's
\* errors_total by exactly one, and a flush whose Transport.send returned
\* has left errors_total as it was
C24_SendErrorCounted ==
    [][flush_queued_events =>
        tstats'.errors_total =
            IF obs'.send = "raised" THEN tstats.errors_total + 1
                                    ELSE tstats.errors_total]_vars

\* a threshold is reached as the constants document it: the interval has
\* passed since the last successful flush, or QUEUED_EVENTS_FLUSH_COUNT events
\* were written to the buffer since
ThresholdReached ==
    \/ now - last_event_flush_date >= QUEUED_EVENTS_FLUSH_INTERVAL
    \/ non_flushed_event_count >= QUEUED_EVENTS_FLUSH_COUNT

\* C25: in an idle cycle without force the worker calls get_queued_events
\* exactly when a threshold is reached; otherwise _flush_queued_events
\* returns at once and touches neither the buffer nor the transport
C25_FlushThresholds ==
    [][wpc = "flush" /\ wpc' # "flush" /\ ~force =>
        /\ (flush_nothing \/ flush_queued_events) <=> ThresholdReached
        /\ ~ThresholdReached => buf' = buf /\ received' = received /\ tstats' = tstats]_vars

\* C27: when add_event raised for the event the worker popped, the worker's
\* next step puts that same event back on the ingress queue and goes on
\* with its loop
C27_FailedEventRequeued ==
    [][wpc = "failed" /\ wpc' # "failed" =>
        /\ wpc' = "loop"
        /\ queue' = Append(queue, held_event)]_vars

\* C28: the worker thread ends only after shutdown was requested: a lock
\* conflict of a buffer call made before that never ends it
C28_LockNeverEndsWorker ==
    [][wpc # "dead" /\ wpc' = "dead" => shutdown_event]_vars

\* C30: in a run in which no buffer call raises, the ingress queue is empty
\* when the worker thread has ended after a shutdown request (the single
\* application thread enqueues nothing once it is inside close())
C30_DrainBeforeExit ==
    /\ wpc = "dead"
    /\ shutdown_event
    /\ faults = 0
    /\ buf.kind = "db" => buf.max_size = None
    => queue = <<>>

\* C33: when get_queued_events raises during a flush (a lock conflict or any
\* other error), the flush ends without a send, a requeue or a delete: the
\* collector receives nothing, the transport's and the worker's counters,
\* the stored events and the gauge stay as they are, and so do the
\* last-flush time and the non-flushed count
C33_GetRaisesEndsFlush ==
    [][wpc = "flush" /\ obs'.get = "raised" =>
        /\ received' = received
        /\ tstats' = tstats
        /\ wstats' = wstats
        /\ obs'.send = "none" /\ ~obs'.requeued /\ ~obs'.deleted /\ ~obs'.reset
        /\ buf'.rows = buf.rows
        /\ buf'.stats.buffered_events = buf.stats.buffered_events
        /\ last_event_flush_date' = last_event_flush_date
        /\ non_flushed_event_count' = non_flushed_event_count]_vars

\* a due flush has just ended because get_queued_events raised an error
\* other than a lock conflict, with a buffered event and a count to keep
C33_Witness ==
    /\ obs.get = "raised"
    /\ buf.stats.lock_errors_total = 0
    /\ Len(Buffered(buf)) > 0
    /\ non_flushed_event_count > 0
    /\ wpc = "expire"

\* C34 as stated: no call of get_queued_events (and so no send) is made
\* while the ingress queue holds an event
C34_NoFlushWhileQueued ==
    [][flush_nothing \/ flush_queued_events => (queue = <<>>)]_vars

\* C34 amended: the worker reaches _flush_queued_events only from the except
\* Empty clause, which it enters only by a poll that found the ingress queue
\* empty; between that poll and the flush the queue changes only by the
\* producers' enqueues
C34_FlushOnlyAfterEmptyPoll ==
    /\ [][wpc' = "flush" => wpc \in {"empty", "flush"}]_vars
    /\ [][wpc' = "empty" /\ wpc # "empty" =>
            (wpc = "loop" /\ queue = <<>> /\ queue' = <<>>)]_vars
    /\ [][queue' # queue /\ wpc \in {"empty", "flush"} =>
            emitted' = emitted + 1 /\ queue' = Append(queue, emitted')]_vars

\* a flush has sent a batch while an event emitted after the empty poll was
\* waiting on the ingress queue
C34_Witness ==
    /\ obs.get = "batch"
    /\ obs.send # "none"
    /\ wpc = "expire"
    /\ queue # <<>>

(* ------------------ properties of the handler's threads --------------- *)
\* C13: at any time at most one worker thread started by the handler class
\* is alive
C13_AtMostOneWorker == Cardinality(alive) <= 1

\* C26: a handler constructed with enable = false never starts a worker
\* thread, never calls the formatter and never enqueues an event in emit:
\* its thread is never inside _start_worker_thread, _format_record or
\* enqueue_event, and while every handler is disabled no worker object
\* exists and no queue holds an event
C26_DisabledEmitDoesNothing ==
    /\ [](\A t \in Threads : ~enable[t] =>
             /\ tpc[t] \notin {"construct", "start", "format", "enqueue", "store"}
             /\ result[t] \notin {"ok", "handled", "raised"})
    /\ []((\A t \in Threads : ~enable[t]) =>
             /\ worker_thread = 0
             /\ created = 0
             /\ started = {}
             /\ enqueued = <<>>)
    /\ [][\A t \in Threads :
            ~enable[t] /\ calls'[t] # calls[t] /\ result'[t] = "disabled" =>
                (UNCHANGED <<worker_thread, created, started, alive, signalled,
                            enqueued, tpc, owner, delivered, counted, local>>)]_vars

\* a disabled handler's emit has returned while an enabled handler's emit
\* has enqueued its record
C26_Witness ==
    \E t, u \in Threads :
        /\ ~enable[t]
        /\ result[t] = "disabled"
        /\ calls[t] = MaxCalls
        /\ enable[u]
        /\ result[u] = "ok"
        /\ enqueued = <<1>>

\* C15: no emit call propagates an exception to its caller
C15_EmitNeverRaises == \A t \in Threads : result[t] # "raised"

\* C31: every record emitted through a handler instance is put on the queue
\* of a worker that was constructed with that same instance's buffer and
\* transport
C31_OwnBufferAndTransport == \A p \in delivered : p[1] = p[2]

\* C32: concurrent emits lose no increment of the worker's events_total:
\* once no emit is inside enqueue_event, the counter of every worker equals
\* the number of records put on its queue
C32_NoLostIncrement ==
    (\A t \in Threads : tpc[t] # "store") =>
        \A w \in 1..Len(counted) : counted[w] = enqueued[w]

(* ---------------- properties of the worker's diagnostics -------------- *)
\* C38: with a limit of N per window, at most N diagnostics that carry an
\* exception are handed to the logger per key and window; each check made
\* while shutdown is not requested counts one hit for the key, and the j-th
\* check of a key in a window is logged plainly when j < N, logged with the
\* rate-limiting annotation when j = N and suppressed when j > N
C38_RateLimitedDiagnostics ==
    /\ [](rate_limit_item # None =>
             \A k \in Keys : window_log[k].sent <= rate_limit_item)
    /\ [][/\ log_calls' # log_calls
          /\ rate_limit_item # None
          /\ ~last_log'.down
          /\ last_log'.exc # NoExc
          => LET k == factor_rate_limit_key(last_log'.exc)
                 before == IF rate_limit_storage[k].expiry > now
                           THEN rate_limit_storage[k].count ELSE 0
                 j == rate_limit_storage'[k].count
             IN /\ j = before + 1
                /\ last_log'.outcome = IF j < rate_limit_item THEN "plain"
                                       ELSE IF j = rate_limit_item THEN "annotated"
                                       ELSE "suppressed"]_vars

\* with '2 per window' a third diagnostic for a key has just been
\* suppressed after two were logged in the window
C38_Witness ==
    /\ rate_limit_item = 2
    /\ last_log.outcome = "suppressed"
    /\ ~last_log.down
    /\ window_log[factor_rate_limit_key(last_log.exc)].sent = 2
    /\ rate_limit_storage[factor_rate_limit_key(last_log.exc)].count = 3

====
